---- MODULE Spec2Model ----
(***************************************************************************)
(* State-machine model of the Mexican-Sign-Language web front-end:         *)
(*   - the AppState store of src/lib/state.ts (src/unnamed/part_000)       *)
(*   - the capture / upload flow of src/scripts/video-processing.js        *)
(* JavaScript values are records tagged by their type in field t; strings  *)
(* are sequences of tokens so that charAt, slice and concatenation are     *)
(* computed rather than assumed.                                           *)
(***************************************************************************)
EXTENDS Integers, Sequences, FiniteSets, TLC

VARIABLES
    state,      \* the store's singleton AppStateShape object
    events,     \* the stateChange events dispatched on window, oldest first
    calls,      \* the setter calls made on AppState, oldest first
    record,     \* a parsed success body handed to extractDetectionData
    detection,  \* what extractDetectionData made of record (Pending before the call)
    selected,   \* document.querySelector('input[name="letter"]:checked')
    captures,   \* the runs of the capture button's async click handler
    MSL_STATE,  \* window.MSL_STATE
    elements,   \* resultLetter, resultConfidence, resultHand: null when missing
    posts,      \* the POST request each run of the handler handed to fetch, null if none
    alerts,     \* number of alert dialogs shown
    console,    \* err.message of the latest console.error
    offscreenDraws, \* number of frames drawn onto the offscreen canvas
    document,       \* ids of the bound elements that the page's markup holds
    called,         \* the operations the page's script has called so far
    listeners,      \* ids of the buttons that carry a click listener
    uncaught,       \* the operations and handlers that ended in an uncaught exception
    labelText,      \* textContent of the toggle button's .label child
    showLandmarks,  \* let showLandmarks
    setup,          \* position of enableVideoProcessing at its awaits
    cameraRequests, \* the getUserMedia calls made, oldest first
    video,          \* the video element: srcObject, videoWidth, videoHeight
    overlay,        \* the overlay canvas: width, height and what is drawn on it
    offscreen,      \* the offscreen canvas: undefined until created, then width, height
    ctx,            \* let ctx: undefined until overlay.getContext('2d') was assigned
    landmarker,     \* let landmarker: undefined until the model was created
    latestLandmarks,    \* let latestLandmarks
    pendingFrames,  \* number of requestAnimationFrame callbacks not yet run
    ticks,          \* number of processFrame runs so far
    original,       \* the same page under the original inline capture handler
    inputs          \* what toBlob and fetch hand to a capture that is compared

storeVars == <<state, events, calls>>
extractVars == <<record, detection>>
captureVars ==
    <<selected, captures, MSL_STATE, elements, posts, alerts, console, offscreenDraws>>
bindVars == <<document, called, listeners, uncaught, labelText, showLandmarks>>
videoVars ==
    <<setup, cameraRequests, video, overlay, offscreen, ctx, landmarker, latestLandmarks,
      pendingFrames, ticks>>
originalVars == <<original, inputs>>
pageVars == <<bindVars, videoVars, originalVars>>
vars ==
    <<state, events, calls, record, detection,
      selected, captures, MSL_STATE, elements, posts, alerts, console, offscreenDraws,
      document, called, listeners, uncaught, labelText, showLandmarks,
      setup, cameraRequests, video, overlay, offscreen, ctx, landmarker, latestLandmarks,
      pendingFrames, ticks, original, inputs>>

(***************************************************************************)
(* Bounds                                                                  *)
(***************************************************************************)
MaxCalls == 4
\* longest landmarks.left / landmarks.right list in a response
MaxPoints == 1
\* number of clicks on the capture button in one run of the page
MaxCaptures == 2

(***************************************************************************)
(* JavaScript values                                                       *)
(***************************************************************************)
Undefined == [t |-> "undefined"]
Null == [t |-> "null"]
Str(s) == [t |-> "string", v |-> s]
Num(n) == [t |-> "number", v |-> n]

Arr(s) == [t |-> "array", v |-> s]
Obj(r) == [t |-> "object", v |-> r]
NaN == [t |-> "NaN"]

Last(s) == s[Len(s)]

\* x is null or undefined (the test of ?? and ?.)
IsNullish(x) == x.t \in {"undefined", "null"}

\* ToBoolean(x), the test of if, ?: and ||
Truthy(x) ==
    CASE x.t \in {"undefined", "null", "NaN"} -> FALSE
      [] x.t = "string" -> x.v # <<>>
      [] x.t = "number" -> x.v # 0
      [] OTHER -> TRUE

\* x.k for x neither null nor undefined
Prop(x, k) ==
    CASE x.t = "object" -> IF k \in DOMAIN x.v THEN x.v[k] ELSE Undefined
      [] x.t \in {"array", "string"} /\ k = "length" -> Num(Len(x.v))
      [] OTHER -> Undefined

\* x[0] for x neither null nor undefined
Index0(x) ==
    CASE x.t = "array" -> IF Len(x.v) > 0 THEN x.v[1] ELSE Undefined
      [] x.t = "string" -> IF Len(x.v) > 0 THEN Str(<<x.v[1]>>) ELSE Undefined
      [] OTHER -> Undefined

\* x?.k and x?.[0]
OptProp(x, k) == IF IsNullish(x) THEN Undefined ELSE Prop(x, k)
OptIndex0(x) == IF IsNullish(x) THEN Undefined ELSE Index0(x)

\* a ?? b
Coalesce(a, b) == IF IsNullish(a) THEN b ELSE a

\* Number(x) for x a number, null, undefined, an object or a string (numbers
\* are in thousandths; the strings of the model hold no digits, so a non-empty
\* one converts to NaN)
ToNumber(x) ==
    CASE x.t = "number" -> x
      [] x.t = "null" -> Num(0)
      [] x.t = "string" -> IF x.v = <<>> THEN Num(0) ELSE NaN
      [] OTHER -> NaN

LowerCase == <<"a", "b", "c", "d", "e", "f", "g", "h", "i", "j", "k", "l", "m",
               "n", "o", "p", "q", "r", "s", "t", "u", "v", "w", "x", "y", "z">>
UpperCase == <<"A", "B", "C", "D", "E", "F", "G", "H", "I", "J", "K", "L", "M",
               "N", "O", "P", "Q", "R", "S", "T", "U", "V", "W", "X", "Y", "Z">>

\* String.prototype.toUpperCase, charAt and slice(1) on token sequences
toUpperCase(s) ==
    [i \in DOMAIN s |->
        IF \E j \in DOMAIN LowerCase : LowerCase[j] = s[i]
        THEN UpperCase[CHOOSE j \in DOMAIN LowerCase : LowerCase[j] = s[i]]
        ELSE s[i]]
charAt(s, i) == IF i + 1 \in DOMAIN s THEN <<s[i + 1]>> ELSE <<>>
slice1(s) == IF s = <<>> THEN <<>> ELSE Tail(s)

\* The em dash of the "no hand" indicator, as one token.
EmDash == "<U+2014>"

(***************************************************************************)
(* The page before any click on the capture button                         *)
(***************************************************************************)
ElementIds == {"resultLetter", "resultConfidence", "resultHand"}

\* A run of the click handler that has not started.
IdleCapture == [pc |-> "idle", letter |-> Null, response |-> Null, outcome |-> "none"]

\* No radio checked, no handler run started, window.MSL_STATE never assigned,
\* the three result elements in the document with the text of the markup.
\* enableVideoProcessing has run its first statements, so that video and the
\* offscreen canvas exist when the button is clicked.
\* The page under the original handler before its first click: no run of the
\* handler, no request, window.MSL_STATE never assigned, the result elements
\* with the text of the markup.
OriginalIdle ==
    [pc |-> "idle", letter |-> Null, response |-> Null, outcome |-> "none",
     post |-> Null, MSL_STATE |-> Undefined,
     elements |-> [id \in ElementIds |-> Obj([textContent |-> Str(<<>>)])],
     alerts |-> 0, console |-> Undefined, offscreenDraws |-> 0]

\* No capture is being compared.
NoInputs == [blob |-> Null, fetch |-> Null]

CaptureInit ==
    /\ original = OriginalIdle
    /\ inputs = NoInputs
    /\ selected = Null
    /\ captures = [i \in 1..MaxCaptures |-> IdleCapture]
    /\ MSL_STATE = Undefined
    /\ elements = [id \in ElementIds |-> Obj([textContent |-> Str(<<>>)])]
    /\ posts = [i \in 1..MaxCaptures |-> Null]
    /\ alerts = 0
    /\ console = Undefined
    /\ offscreenDraws = 0

(***************************************************************************)
(* The page before and after its script ran: src/scripts/video-processing.js *)
(***************************************************************************)
\* The elements that enablePreviewToggle and captureSnapshot look up; "label"
\* is the .label child of the toggle button.
BindIds == {"togglePreviewBtn", "label", "captureBtn"}

\* The two label strings of updateToggleButtonLabel.
HideLandmarks == Str(<<"Hide Landmarks">>)
ShowLandmarks == Str(<<"Show Landmarks">>)

\* The arguments of the two getUserMedia calls of setupWebcam:
\* { video: CONFIG.VIDEO_CONSTRAINTS.high } and CONFIG.VIDEO_CONSTRAINTS.fallback.
HighRequest ==
    Obj([video |-> Obj([width |-> Obj([ideal |-> Num(1920)]),
                        height |-> Obj([ideal |-> Num(1080)])])])
FallbackRequest == Obj([video |-> [t |-> "boolean", v |-> TRUE]])

\* A canvas that was never sized has the default size of the canvas element.
DefaultCanvas == [width |-> 300, height |-> 150]

\* overlay.getContext('2d')
Context2D == Obj([canvas |-> Str(<<"overlay">>)])

\* Nothing of the script has run: no listener, no label written, the let
\* variables undefined but showLandmarks, the video element without stream.
BindInit ==
    /\ called = {}
    /\ listeners = {}
    /\ uncaught = {}
    /\ labelText = Str(<<>>)
    /\ showLandmarks = TRUE

VideoInit ==
    /\ setup = "notCalled"
    /\ cameraRequests = <<>>
    /\ video = [srcObject |-> Null, videoWidth |-> 0, videoHeight |-> 0]
    /\ overlay = [width |-> DefaultCanvas.width, height |-> DefaultCanvas.height,
                  drawing |-> <<>>]
    /\ offscreen = Undefined
    /\ ctx = Undefined
    /\ landmarker = Undefined
    /\ latestLandmarks = Undefined
    /\ pendingFrames = 0
    /\ ticks = 0

\* The page after its script ran on the full markup: both buttons bound, the
\* label written, enableVideoProcessing waiting for the camera.
PageLoaded ==
    /\ document = BindIds
    /\ called = {"enablePreviewToggle", "captureSnapshot", "enableVideoProcessing"}
    /\ listeners = {"togglePreviewBtn", "captureBtn"}
    /\ uncaught = {}
    /\ labelText = HideLandmarks
    /\ showLandmarks = TRUE
    /\ setup = "highRequest"
    /\ cameraRequests = <<[constraints |-> HighRequest, outcome |-> "pending"]>>
    /\ video = [srcObject |-> Null, videoWidth |-> 0, videoHeight |-> 0]
    /\ overlay = [width |-> DefaultCanvas.width, height |-> DefaultCanvas.height,
                  drawing |-> <<>>]
    /\ offscreen = Obj(DefaultCanvas)
    /\ ctx = Context2D
    /\ landmarker = Undefined
    /\ latestLandmarks = Undefined
    /\ pendingFrames = 0
    /\ ticks = 0

(***************************************************************************)
(* The store: src/lib/state.ts                                             *)
(***************************************************************************)
Status == {"idle", "loading", "requestDone", "error"}

\* DetectionResult values a caller may hand to setResult (confidence in thousandths).
DetectionResult ==
    { Obj([detectedLetter |-> Str(<<"A">>), confidenceNum |-> Num(873),
           handDetected |-> Str(<<"R", "i", "g", "h", "t">>)]),
      Obj([detectedLetter |-> Str(<<"B">>), confidenceNum |-> Num(0),
           handDetected |-> Str(<<EmDash>>)]) }

\* string | null arguments of setError
ErrorMessages == {Null, Str(<<"boom">>), Str(<<>>)}

AppStateShape ==
    [status : Status,
     result : DetectionResult \cup {Undefined},
     errorMessage : ErrorMessages]

\* const state: AppStateShape = { status: "idle", result: undefined, errorMessage: null }
InitialState == [status |-> "idle", result |-> Undefined, errorMessage |-> Null]

\* window.dispatchEvent(new CustomEvent("stateChange", { detail: state })):
\* listeners run synchronously and read the store as it is at dispatch.
dispatchEvent(log, op, detail) == Append(log, [op |-> op, detail |-> detail])

Called(op, arg) == calls' = Append(calls, [op |-> op, arg |-> arg])

\* Mutant: the early return on an unchanged status is missing.
setStatusAlways(next) ==
    /\ Len(calls) < MaxCalls
    /\ Called("setStatus", Str(<<next>>))
    /\ state' = [state EXCEPT !.status = next]
    /\ events' = dispatchEvent(events, "setStatus", state')

setStatus(next) ==
    /\ Len(calls) < MaxCalls
    /\ Called("setStatus", Str(<<next>>))
    /\ IF next = state.status
       THEN UNCHANGED <<state, events>>
       ELSE /\ state' = [state EXCEPT !.status = next]
            /\ events' = dispatchEvent(events, "setStatus", state')

\* Mutant: setResult copies setStatus's early return and stays silent on an equal result.
setResultQuiet(result) ==
    /\ Len(calls) < MaxCalls
    /\ Called("setResult", result)
    /\ IF result = state.result
       THEN UNCHANGED <<state, events>>
       ELSE /\ state' = [state EXCEPT !.result = result]
            /\ events' = dispatchEvent(events, "setResult", state')

setResult(result) ==
    /\ Len(calls) < MaxCalls
    /\ Called("setResult", result)
    /\ state' = [state EXCEPT !.result = result]
    /\ events' = dispatchEvent(events, "setResult", state')

\* Mutant: setError stores the message and forgets the status.
setErrorMessageOnly(message) ==
    /\ Len(calls) < MaxCalls
    /\ Called("setError", message)
    /\ state' = [state EXCEPT !.errorMessage = message]
    /\ events' = dispatchEvent(events, "setError", state')

\* Mutant: the status is forced to "error" only for a non-null message.
setErrorUnlessNull(message) ==
    /\ Len(calls) < MaxCalls
    /\ Called("setError", message)
    /\ state' = [state EXCEPT !.errorMessage = message,
                              !.status = IF message = Null THEN @ ELSE "error"]
    /\ events' = dispatchEvent(events, "setError", state')

setError(message) ==
    /\ Len(calls) < MaxCalls
    /\ Called("setError", message)
    /\ state' = [state EXCEPT !.errorMessage = message, !.status = "error"]
    /\ events' = dispatchEvent(events, "setError", state')

\* Mutant: reset forgets to clear the error message.
resetKeepsMessage ==
    /\ Len(calls) < MaxCalls
    /\ Called("reset", Undefined)
    /\ state' = [state EXCEPT !.status = "idle", !.result = Undefined]
    /\ events' = dispatchEvent(events, "reset", state')

reset ==
    /\ Len(calls) < MaxCalls
    /\ Called("reset", Undefined)
    /\ state' = [state EXCEPT !.status = "idle", !.result = Undefined,
                              !.errorMessage = Null]
    /\ events' = dispatchEvent(events, "reset", state')

StoreInit ==
    /\ state = InitialState
    /\ events = <<>>
    /\ calls = <<>>

SetStatusCall == (\E next \in Status : setStatus(next)) /\ UNCHANGED <<extractVars, captureVars, pageVars>>
SetResultCall ==
    (\E result \in DetectionResult \cup {Undefined} : setResult(result)) /\ UNCHANGED <<extractVars, captureVars, pageVars>>
SetErrorCall == (\E message \in ErrorMessages : setError(message)) /\ UNCHANGED <<extractVars, captureVars, pageVars>>
ResetCall == reset /\ UNCHANGED <<extractVars, captureVars, pageVars>>

StoreNext ==
    \/ SetStatusCall
    \/ SetResultCall
    \/ SetErrorCall
    \/ ResetCall

\* The page with the store in use and no response being processed.
InitStore ==
    /\ StoreInit
    /\ record = Undefined
    /\ detection = [pending |-> TRUE]
    /\ CaptureInit
    /\ PageLoaded

SpecStore == InitStore /\ [][StoreNext]_vars

(***************************************************************************)
(* Claims about the store                                                  *)
(***************************************************************************)
\* A step that is a call of one of the four setters.
IsCall == Len(calls') = Len(calls) + 1
TheCall == Last(calls')

\* C1: in every reachable state of the store, status is "error" whenever
\* errorMessage is non-null.
C1_ErrorStatusWheneverMessage ==
    state.errorMessage # Null => state.status = "error"

\* C1 (amended): status is "error" whenever errorMessage is non-null and no
\* setStatus call with another status was made since the last setError call.
LastSetError ==
    CHOOSE k \in 0..Len(calls) :
        /\ k > 0 => calls[k].op = "setError"
        /\ \A j \in (k + 1)..Len(calls) : calls[j].op # "setError"

C1_ErrorStatusUntilSetStatus ==
    (/\ state.errorMessage # Null
     /\ \A j \in (LastSetError + 1)..Len(calls) :
            calls[j].op = "setStatus" => calls[j].arg = Str(<<"error">>))
        => state.status = "error"

C1_Witness ==
    /\ Len(calls) >= 3
    /\ calls[1] = [op |-> "setStatus", arg |-> Str(<<"loading">>)]
    /\ calls[2].op = "setError"
    /\ calls[3].op = "setResult"
    /\ state.errorMessage # Null
    /\ state.status = "error"

\* C2: setStatus(s) with s equal to the current status changes neither the
\* state nor the event log; and two notifications that follow one another and
\* were both dispatched by setStatus (so only setStatus calls lie between
\* them, every other setter dispatching on each call) never carry the same
\* status value.
C2_SetStatusSameIsNoOp ==
    /\ [][(IsCall /\ TheCall.op = "setStatus" /\ TheCall.arg = Str(<<state.status>>))
            => UNCHANGED <<state, events>>]_vars
    /\ [](\A i \in 1..(Len(events) - 1) :
            (events[i].op = "setStatus" /\ events[i + 1].op = "setStatus")
                => events[i].detail.status # events[i + 1].detail.status)

C2_Witness ==
    /\ Len(calls) >= 3
    /\ calls[1] = [op |-> "setStatus", arg |-> Str(<<"loading">>)]
    /\ calls[2] = [op |-> "setStatus", arg |-> Str(<<"loading">>)]
    /\ calls[3] = [op |-> "setStatus", arg |-> Str(<<"requestDone">>)]
    /\ Len(events) = 2

\* C3: after setError(msg), for every msg including null, status is "error",
\* errorMessage is msg and result is what it was before the call.
C3_SetErrorForcesError ==
    [][(IsCall /\ TheCall.op = "setError")
        => /\ state'.status = "error"
           /\ state'.errorMessage = TheCall.arg
           /\ state'.result = state.result]_vars

C3_Witness ==
    /\ Len(calls) >= 2
    /\ Last(calls) = [op |-> "setError", arg |-> Null]
    /\ state.status = "error"
    /\ state.errorMessage = Null
    /\ state.result # Undefined

\* C4: right after reset(), whatever setters were called before, the state is
\* the initial triple: status "idle", result undefined, errorMessage null.
C4_ResetRestoresInitial ==
    (Len(calls) > 0 /\ Last(calls).op = "reset")
        => state = [status |-> "idle", result |-> Undefined, errorMessage |-> Null]

C4_Witness ==
    /\ Len(calls) >= 3
    /\ Last(calls).op = "reset"
    /\ \E i \in 1..Len(calls) : calls[i].op = "setError" /\ calls[i].arg # Null
    /\ \E i \in 1..Len(calls) : calls[i].op = "setResult" /\ calls[i].arg # Undefined

\* C5: each call of setResult, setError or reset, and each call of setStatus
\* that changes the status, appends exactly one stateChange event whose detail
\* is the whole state after the mutation; the event log changes in no step
\* that is not a setter call.
C5_OneEventPerMutation ==
    [][/\ (IsCall /\ (TheCall.op # "setStatus" \/ state'.status # state.status))
            => /\ Len(events') = Len(events) + 1
               /\ SubSeq(events', 1, Len(events)) = events
               /\ Last(events').detail = state'
               /\ Last(events').op = TheCall.op
       /\ (events' # events) => IsCall]_vars

C5_Witness ==
    /\ Len(events) >= 3
    /\ {events[i].op : i \in 1..Len(events)} = {"setResult", "setError", "reset"}
    /\ Last(events).detail = state

(***************************************************************************)
(* extractDetectionData: src/scripts/video-processing.js                   *)
(***************************************************************************)
right == <<"r", "i", "g", "h", "t">>
left == <<"l", "e", "f", "t">>

\* Mutant: the prediction is not consulted when detected_as is absent.
detectedLetterNoPrediction(rec) ==
    Coalesce(Prop(rec, "detected_as"), Str(<<"-">>))

\* const detectedLetter = record.detected_as ?? record.predicted_as ?? '-'
detectedLetter(rec) ==
    Coalesce(Coalesce(Prop(rec, "detected_as"), Prop(rec, "predicted_as")), Str(<<"-">>))

\* const confidenceNum = Number(record.confidence ?? 0)
confidenceNum(rec) == ToNumber(Coalesce(Prop(rec, "confidence"), Num(0)))

\* Mutant: the landmark fallback names the right hand in both branches.
handRawBothRight(rec) ==
    LET landmarks == OptProp(OptProp(rec, "metadata"), "landmarks")
    IN  Coalesce(OptIndex0(OptProp(OptProp(rec, "metadata"), "handedness")),
                 IF Truthy(OptProp(OptProp(landmarks, "right"), "length")) THEN Str(right)
                 ELSE IF Truthy(OptProp(OptProp(landmarks, "left"), "length")) THEN Str(right)
                 ELSE Null)

\* const handRaw = record?.metadata?.handedness?.[0] ??
\*     (record?.metadata?.landmarks?.right?.length ? 'right' :
\*         record?.metadata?.landmarks?.left?.length ? 'left' : null)
handRaw(rec) ==
    LET landmarks == OptProp(OptProp(rec, "metadata"), "landmarks")
    IN  Coalesce(OptIndex0(OptProp(OptProp(rec, "metadata"), "handedness")),
                 IF Truthy(OptProp(OptProp(landmarks, "right"), "length")) THEN Str(right)
                 ELSE IF Truthy(OptProp(OptProp(landmarks, "left"), "length")) THEN Str(left)
                 ELSE Null)

\* const handDetected = handRaw ? handRaw.charAt(0).toUpperCase() + handRaw.slice(1) : EmDash
handDetected(raw) ==
    IF Truthy(raw)
    THEN Str(toUpperCase(charAt(raw.v, 0)) \o slice1(raw.v))
    ELSE Str(<<EmDash>>)

\* const confidencePct = `${Math.round(confidenceNum * 100)}%`
confidencePct(num) ==
    IF num.t = "NaN" THEN Str(<<"NaN", "%">>)
    ELSE Str(<<ToString((num.v + 5) \div 10), "%">>)

\* The property reads and method calls of extractDetectionData that throw a
\* TypeError: record.detected_as on null or undefined, and handRaw.charAt on a
\* truthy value that is no string.
extractThrows(rec) ==
    \/ IsNullish(rec)
    \/ (Truthy(handRaw(rec)) /\ handRaw(rec).t # "string")

extractDetectionData(rec) ==
    IF extractThrows(rec)
    THEN [pending |-> FALSE, threw |-> TRUE, error |-> <<"TypeError">>]
    ELSE [pending |-> FALSE, threw |-> FALSE,
          value |-> [detectedLetter |-> detectedLetter(rec),
                     confidenceNum |-> confidenceNum(rec),
                     confidencePct |-> confidencePct(confidenceNum(rec)),
                     handDetected |-> handDetected(handRaw(rec))]]

\* One landmark point of a response's metadata.
Point == Obj([x |-> Num(0), y |-> Num(0), z |-> Num(0)])

\* The lists of 0..MaxPoints points, and an absent list.
LandmarkLists ==
    {Undefined} \cup {Arr([i \in 1..n |-> Point]) : n \in 0..MaxPoints}

Landmarks ==
    {Undefined} \cup {Obj([left |-> l, right |-> r]) : l \in LandmarkLists, r \in LandmarkLists}

Handedness ==
    {Undefined, Arr(<<>>), Arr(<<Null>>), Arr(<<Str(right)>>), Arr(<<Str(left)>>),
     Arr(<<Str(<<"R", "i", "g", "h", "t">>)>>), Arr(<<Str(<<>>)>>),
     Arr(<<Str(<<"L", "E", "F", "T">>)>>),
     Arr(<<Obj([label |-> Str(left)])>>)}

Metadata ==
    {Undefined, Null} \cup {Obj([handedness |-> h, landmarks |-> l]) : h \in Handedness, l \in Landmarks}

\* The parsed bodies of success responses: every field of the consumed shape
\* present or absent (an absent field reads as undefined), and the body null.
Records ==
    {Null} \cup
    {Obj([detected_as |-> d, predicted_as |-> p, confidence |-> c, metadata |-> m]) :
        d \in {Undefined, Null, Str(<<"A">>)},
        p \in {Undefined, Str(<<"B">>)},
        c \in {Undefined, Num(0), Num(873), Num(1000), Str(<<"h", "i", "g", "h">>)},
        m \in Metadata}

Pending == [pending |-> TRUE]

\* A success body has been parsed and extractDetectionData is about to run on it.
InitExtract ==
    /\ record \in Records
    /\ detection = Pending
    /\ StoreInit
    /\ CaptureInit
    /\ PageLoaded

Extract ==
    /\ detection = Pending
    /\ detection' = extractDetectionData(record)
    /\ UNCHANGED <<record, storeVars, captureVars, pageVars>>

ExtractNext == Extract

SpecExtract == InitExtract /\ [][ExtractNext]_vars

(***************************************************************************)
(* JSON text, Response bodies and template literals                        *)
(***************************************************************************)
\* The order in which the keys of an object are written.
KeyOrder ==
    <<"detail", "error", "detected_as", "predicted_as", "confidence", "metadata",
      "handedness", "landmarks", "left", "right", "label", "x", "y", "z">>

\* The concatenation of the sequences of parts, sep between two of them.
RECURSIVE Join(_, _)
Join(parts, sep) ==
    IF parts = <<>> THEN <<>>
    ELSE IF Len(parts) = 1 THEN parts[1]
    ELSE parts[1] \o sep \o Join(Tail(parts), sep)

\* The decimal text of n thousandths, n >= 0 (0.873 for 873, 1 for 1000).
NumberText(n) ==
    LET frac == n % 1000
        digits == <<ToString(frac \div 100), ToString((frac \div 10) % 10), ToString(frac % 10)>>
        kept == IF frac % 10 # 0 THEN 3 ELSE IF frac % 100 # 0 THEN 2 ELSE 1
    IN  IF frac = 0 THEN <<ToString(n \div 1000)>>
        ELSE <<ToString(n \div 1000), ".">> \o SubSeq(digits, 1, kept)

\* JSON.stringify(x), as tokens
RECURSIVE JSONStringify(_)
JSONStringify(x) ==
    CASE x.t = "null" -> <<"null">>
      [] x.t = "NaN" -> <<"null">>
      [] x.t = "number" -> NumberText(x.v)
      [] x.t = "string" -> <<"\"">> \o x.v \o <<"\"">>
      [] x.t = "array" ->
            <<"[">> \o Join([i \in DOMAIN x.v |-> JSONStringify(x.v[i])], <<",">>) \o <<"]">>
      [] x.t = "object" ->
            LET Written(k) == k \in DOMAIN x.v /\ x.v[k] # Undefined
                keys == SelectSeq(KeyOrder, Written)
            IN  <<"{">>
                \o Join([i \in DOMAIN keys |->
                            <<"\"", keys[i], "\"", ":">> \o JSONStringify(x.v[keys[i]])],
                        <<",">>)
                \o <<"}">>

\* `${x}`: the text a template literal or string concatenation gives x
RECURSIVE TemplateText(_)
TemplateText(x) ==
    CASE x.t = "string" -> x.v
      [] x.t = "number" -> NumberText(x.v)
      [] x.t = "NaN" -> <<"NaN">>
      [] x.t = "null" -> <<"null">>
      [] x.t = "undefined" -> <<"undefined">>
      [] x.t = "array" ->
            Join([i \in DOMAIN x.v |->
                    IF IsNullish(x.v[i]) THEN <<>> ELSE TemplateText(x.v[i])], <<",">>)
      [] OTHER -> <<"[object Object]">>

\* part occurs in text as a run of consecutive tokens
Contains(text, part) ==
    \E k \in 0..(Len(text) - Len(part)) : SubSeq(text, k + 1, k + Len(part)) = part

\* The JSON values the server sends in this model: success records, error
\* payloads and other JSON.
JSONValues ==
    { Obj([detected_as |-> Str(<<"A">>), predicted_as |-> Undefined, confidence |-> Num(873),
           metadata |-> Obj([handedness |-> Arr(<<Str(right)>>), landmarks |-> Undefined])]),
      Obj([detected_as |-> Undefined, predicted_as |-> Str(<<"B">>), confidence |-> Undefined,
           metadata |-> Obj([handedness |-> Undefined,
                             landmarks |-> Obj([left |-> Arr(<<Point>>), right |-> Arr(<<>>)])])]),
      Obj([detected_as |-> Undefined, predicted_as |-> Undefined, confidence |-> Undefined,
           metadata |-> Obj([handedness |-> Arr(<<Obj([label |-> Str(left)])>>),
                             landmarks |-> Undefined])]),
      Obj([detail |-> Str(<<"bad image">>)]),
      Obj([detail |-> Null, error |-> Str(<<"no hand">>)]),
      Obj([detail |-> Undefined, error |-> Undefined]),
      Null }

\* Bodies that are no JSON text.
PlainTexts == {<<"Internal Server Error">>}

Bodies == {JSONStringify(v) : v \in JSONValues} \cup PlainTexts

\* JSON.parse(text): the value text is the JSON text of, or a SyntaxError
JSONParse(text) ==
    IF \E v \in JSONValues : JSONStringify(v) = text
    THEN [ok |-> TRUE, value |-> CHOOSE v \in JSONValues : JSONStringify(v) = text]
    ELSE [ok |-> FALSE, error |-> <<"SyntaxError: Unexpected token">>]

Statuses == {200, 500}

\* Response.ok
Ok(status) == status >= 200 /\ status <= 299

\* The responses fetch can resolve with, their body not yet read.
Responses == [status : Statuses, body : Bodies, bodyUsed : {FALSE}]

BodyAlreadyRead == <<"TypeError: body stream already read">>

\* response.json() and response.text(): each rejects on a body that was read
\* before and marks the body as read otherwise.
ResponseJson(response) ==
    IF response.bodyUsed THEN [ok |-> FALSE, error |-> BodyAlreadyRead]
    ELSE JSONParse(response.body)

ResponseText(response) ==
    IF response.bodyUsed THEN [ok |-> FALSE, error |-> BodyAlreadyRead]
    ELSE [ok |-> TRUE, value |-> Str(response.body)]

Read(response) == [response EXCEPT !.bodyUsed = TRUE]

(***************************************************************************)
(* The capture flow: captureSnapshot and its helpers                       *)
(***************************************************************************)
\* The radio inputs named "letter": one for a letter, one with an empty value.
Radios == {Obj([value |-> Str(<<"A">>)]), Obj([value |-> Str(<<>>)])}

\* What canvas.toBlob hands to its callback: a PNG blob, or null when the
\* image cannot be made.
Blobs == {Obj([type |-> Str(<<"image/png">>)]), Null}

\* return selected?.value || null
getSelectedLetter(sel) ==
    IF Truthy(OptProp(sel, "value")) THEN OptProp(sel, "value") ELSE Null

\* A run of the handler that has returned.
Finished(outcome) == [pc |-> "done", letter |-> Null, response |-> Null, outcome |-> outcome]

\* A run of the handler suspended at an await, with the locals it still reads.
Awaiting(pc, letter, response) ==
    [pc |-> pc, letter |-> letter, response |-> response, outcome |-> "none"]

\* Mutant: the catch block also reports the failure to the store.
catchErrorToStore(i, message) ==
    /\ console' = Str(message)
    /\ captures' = [captures EXCEPT ![i] = Finished("failed")]
    /\ setError(Str(message))
    /\ UNCHANGED <<MSL_STATE, elements>>

\* catch (err) { console.error('Error during capture:', err.message); }
catchError(i, message) ==
    /\ console' = Str(message)
    /\ captures' = [captures EXCEPT ![i] = Finished("failed")]
    /\ UNCHANGED <<MSL_STATE, elements, storeVars>>

\* Mutant: the alert is shown and the handler goes on without returning.
clickNoReturn(i) ==
    /\ captures[i].pc = "idle"
    /\ i > 1 => captures[i - 1].pc # "idle"
    /\ alerts' = IF Truthy(getSelectedLetter(selected)) THEN alerts ELSE alerts + 1
    /\ offscreenDraws' = offscreenDraws + 1
    /\ captures' = [captures EXCEPT ![i] = Awaiting("toBlob", getSelectedLetter(selected), Null)]
    /\ UNCHANGED <<selected, MSL_STATE, elements, posts, console, storeVars, extractVars>>

\* The click handler up to its first await: getSelectedLetter, the alert and
\* return when there is no letter, else captureVideoFrame's promise executor
\* (drawImage onto the offscreen canvas, then toBlob).
click(i) ==
    /\ captures[i].pc = "idle"
    /\ i > 1 => captures[i - 1].pc # "idle"
    /\ LET letter == getSelectedLetter(selected)
       IN  IF ~Truthy(letter)
           THEN /\ alerts' = alerts + 1
                /\ captures' = [captures EXCEPT ![i] = Finished("alerted")]
                /\ UNCHANGED offscreenDraws
           ELSE /\ offscreenDraws' = offscreenDraws + 1
                /\ captures' = [captures EXCEPT ![i] = Awaiting("toBlob", letter, Null)]
                /\ UNCHANGED alerts
    /\ UNCHANGED <<selected, MSL_STATE, elements, posts, console, storeVars, extractVars>>

\* `${letter}_${crypto.randomUUID().split('-')[0]}.png`; the eight hex digits
\* are one token, read by nothing in the page.
fileName(letter) == TemplateText(letter) \o <<"_", "<uuid8>", ".png">>

\* toBlob's callback resolves captureVideoFrame; sendImageToServer builds the
\* form (FormData.append throws on a null blob) and calls fetch.
blobReady(i, blob) ==
    /\ captures[i].pc = "toBlob"
    /\ IF blob = Null
       THEN /\ catchError(i, <<"TypeError: parameter 2 is not of type 'Blob'">>)
            /\ UNCHANGED posts
       ELSE /\ posts' = [posts EXCEPT ![i] =
                            Obj([method |-> Str(<<"POST">>), path |-> Str(<<"/process/">>),
                                 image |-> Str(fileName(captures[i].letter)),
                                 label |-> captures[i].letter])]
            /\ captures' = [captures EXCEPT ![i] = Awaiting("fetch", Null, Null)]
            /\ UNCHANGED <<console, MSL_STATE, elements, storeVars>>
    /\ UNCHANGED <<selected, alerts, offscreenDraws, extractVars>>

\* fetch settles: it rejects, or resolves with a response; a response that is
\* not ok goes to handleServerError, which calls response.json(), an ok one is
\* returned to processServerResponse, which calls response.json(). The run
\* keeps the response as json() found it; what json() settles with is computed
\* from that, and the body is marked as read (Read) before anything reads it
\* again.
fetchSettles(i) ==
    /\ captures[i].pc = "fetch"
    /\ \/ catchError(i, <<"TypeError: Failed to fetch">>)
       \/ \E response \in Responses :
            /\ captures' = [captures EXCEPT ![i] =
                    Awaiting(IF Ok(response.status) THEN "okJson" ELSE "errJson",
                             Null, response)]
            /\ UNCHANGED <<console, MSL_STATE, elements, storeVars>>
    /\ UNCHANGED <<selected, posts, alerts, offscreenDraws, extractVars>>

\* let errorDetail = `HTTP ${response.status}`
httpStatusText(response) == <<"HTTP ", ToString(response.status)>>

\* errorDetail += `: ${payload.detail ?? JSON.stringify(payload)}`
errorDetailOfPayload(response, payload) ==
    httpStatusText(response) \o <<": ">>
        \o TemplateText(Coalesce(Prop(payload, "detail"), Str(JSONStringify(payload))))

\* errorDetail += `: ${text}`
errorDetailOfText(response, text) == httpStatusText(response) \o <<": ">> \o TemplateText(text)

\* handleServerError after its response.json() settled: with a payload whose
\* detail can be read it throws Error(errorDetail); a SyntaxError of json() or
\* a TypeError of payload.detail lands in its catch, which calls
\* response.text() on the response json() has read.
errJsonSettles(i) ==
    /\ captures[i].pc = "errJson"
    /\ LET response == captures[i].response
           payload == ResponseJson(response)
       IN  IF payload.ok /\ ~IsNullish(payload.value)
           THEN catchError(i, errorDetailOfPayload(response, payload.value))
           ELSE /\ captures' = [captures EXCEPT ![i] =
                        Awaiting("errText", Null, Read(response))]
                /\ UNCHANGED <<console, MSL_STATE, elements, storeVars>>
    /\ UNCHANGED <<selected, posts, alerts, offscreenDraws, extractVars>>

\* handleServerError after its response.text() settled: the rejection leaves
\* handleServerError as it is, a text is appended and Error(errorDetail) thrown.
errTextSettles(i) ==
    /\ captures[i].pc = "errText"
    /\ LET response == captures[i].response
           text == ResponseText(response)
       IN  IF text.ok
           THEN catchError(i, errorDetailOfText(response, text.value))
           ELSE catchError(i, text.error)
    /\ UNCHANGED <<selected, posts, alerts, offscreenDraws, extractVars>>

\* Mutant: the hand element is not rewritten.
updateResultsUIKeepsHand(result) ==
    /\ MSL_STATE' = Obj([lastDetectedLetter |-> result.detectedLetter,
                         lastConfidenceNum |-> result.confidenceNum,
                         lastConfidencePct |-> result.confidencePct,
                         lastHand |-> result.handDetected])
    /\ elements' =
        [id \in ElementIds |->
            IF elements[id] = Null THEN Null
            ELSE CASE id = "resultLetter" ->
                        Obj([textContent |-> Str(<<"Letter detected: ">>
                                                  \o TemplateText(result.detectedLetter))])
                   [] id = "resultConfidence" ->
                        Obj([textContent |-> Str(<<"Confidence: ">>
                                                  \o TemplateText(result.confidencePct))])
                   [] id = "resultHand" -> elements[id]]

\* window.MSL_STATE = {...}; the textContent of each result element present
updateResultsUI(result) ==
    /\ MSL_STATE' = Obj([lastDetectedLetter |-> result.detectedLetter,
                         lastConfidenceNum |-> result.confidenceNum,
                         lastConfidencePct |-> result.confidencePct,
                         lastHand |-> result.handDetected])
    /\ elements' =
        [id \in ElementIds |->
            IF elements[id] = Null THEN Null
            ELSE Obj([textContent |-> Str(
                    CASE id = "resultLetter" ->
                            <<"Letter detected: ">> \o TemplateText(result.detectedLetter)
                      [] id = "resultConfidence" ->
                            <<"Confidence: ">> \o TemplateText(result.confidencePct)
                      [] id = "resultHand" ->
                            <<"Hand detected: ">> \o TemplateText(result.handDetected))])]

\* processServerResponse after its response.json() settled, then
\* updateResultsUI(detectionResult); what json() or extractDetectionData
\* throws goes to the handler's catch.
okJsonSettles(i) ==
    /\ captures[i].pc = "okJson"
    /\ LET parsed == ResponseJson(captures[i].response)
       IN  IF ~parsed.ok
           THEN catchError(i, parsed.error)
           ELSE LET detectionResult == extractDetectionData(parsed.value)
                IN  IF detectionResult.threw
                    THEN catchError(i, detectionResult.error)
                    ELSE /\ updateResultsUI(detectionResult.value)
                         /\ captures' = [captures EXCEPT ![i] = Finished("updated")]
                         /\ UNCHANGED <<console, storeVars>>
    /\ UNCHANGED <<selected, posts, alerts, offscreenDraws, extractVars>>

\* The user checks another radio of the group.
SelectLetter ==
    /\ selected' \in Radios \ {selected}
    /\ UNCHANGED <<captures, MSL_STATE, elements, posts, alerts, console, offscreenDraws,
                   storeVars, extractVars, pageVars>>

Click == (\E i \in 1..MaxCaptures : click(i)) /\ UNCHANGED pageVars
BlobReady ==
    (\E i \in 1..MaxCaptures, blob \in Blobs : blobReady(i, blob)) /\ UNCHANGED pageVars
FetchSettles == (\E i \in 1..MaxCaptures : fetchSettles(i)) /\ UNCHANGED pageVars
ErrJsonSettles == (\E i \in 1..MaxCaptures : errJsonSettles(i)) /\ UNCHANGED pageVars
ErrTextSettles == (\E i \in 1..MaxCaptures : errTextSettles(i)) /\ UNCHANGED pageVars
OkJsonSettles == (\E i \in 1..MaxCaptures : okJsonSettles(i)) /\ UNCHANGED pageVars

CaptureNext ==
    \/ SelectLetter
    \/ Click
    \/ BlobReady
    \/ FetchSettles
    \/ ErrJsonSettles
    \/ ErrTextSettles
    \/ OkJsonSettles

\* The page loaded, the capture button bound, the store untouched.
InitCapture ==
    /\ CaptureInit
    /\ StoreInit
    /\ record = Undefined
    /\ detection = Pending
    /\ PageLoaded

SpecCapture == InitCapture /\ [][CaptureNext]_vars

(***************************************************************************)
(* Claims about the capture flow                                           *)
(***************************************************************************)
\* Run i of the click handler takes a step.
Steps(i) == captures'[i] # captures[i]
\* Run i of the handler starts: the button is clicked.
Clicked(i) == captures[i].pc = "idle" /\ captures'[i].pc # "idle"
\* Run i of the handler ends in its catch block.
Fails(i) == captures[i].pc # "done" /\ captures'[i].pc = "done" /\ captures'[i].outcome = "failed"

C7_PlainTextErrorBody ==
    [][\A i \in 1..MaxCaptures :
        (/\ Fails(i)
         /\ captures[i].pc \in {"errJson", "errText"}
         /\ captures[i].response.body \in PlainTexts)
            => /\ Contains(console'.v, <<ToString(captures[i].response.status)>>)
               /\ Contains(console'.v, captures[i].response.body)]_vars

\* The text of a payload that the error message is to contain: its detail
\* when it has one that is neither null nor undefined, else its JSON text.
DetailOrPayload(payload) ==
    IF payload.t = "object" /\ "detail" \in DOMAIN payload.v /\ ~IsNullish(payload.v.detail)
    THEN payload.v.detail.v
    ELSE JSONStringify(payload)

\* C8: for a response that is not ok and whose body is JSON text,
\* sendImageToServer fails with an error whose message contains the HTTP
\* status and the payload's detail, or the serialized payload when there is no
\* detail; such a response never reaches processServerResponse.
C8_JsonErrorBody ==
    /\ [][\A i \in 1..MaxCaptures :
            (/\ Fails(i)
             /\ captures[i].pc \in {"errJson", "errText"}
             /\ captures[i].response.body \notin PlainTexts)
                => /\ Contains(console'.v, <<ToString(captures[i].response.status)>>)
                   /\ Contains(console'.v,
                        DetailOrPayload(CHOOSE v \in JSONValues :
                            JSONStringify(v) = captures[i].response.body))]_vars
    /\ [](\A i \in 1..MaxCaptures :
            captures[i].pc = "okJson" => Ok(captures[i].response.status))

\* C9: a run of the handler changes window.MSL_STATE, the result elements, the
\* store and the event log in no step but the one in which it ends with
\* updateResultsUI; a run that ends in the catch block (fetch rejected, a
\* response that is not ok, a success body that cannot be parsed or read)
\* leaves all of them as they were, and the store and event log never change.
C9_FailureLeavesEverything ==
    [][\A i \in 1..MaxCaptures :
        /\ (Steps(i) /\ ~(captures'[i].pc = "done" /\ captures'[i].outcome = "updated"))
                => UNCHANGED <<MSL_STATE, elements, state, events>>
        /\ Steps(i) => UNCHANGED <<state, events>>]_vars

C9_Witness ==
    /\ captures[1].outcome = "updated"
    /\ captures[2].outcome = "failed"
    /\ console = Str(<<"HTTP ", "500", ": ", "bad image">>)
    /\ MSL_STATE # Undefined
    /\ elements["resultLetter"].v.textContent = Str(<<"Letter detected: ", "A">>)
    /\ state = InitialState /\ events = <<>>

(***************************************************************************)
(* Claims about extractDetectionData                                       *)
(***************************************************************************)
\* record.metadata.landmarks[side] is a list with at least one point.
HasPoints(rec, side) ==
    /\ rec.t = "object" /\ rec.v.metadata.t = "object"
    /\ rec.v.metadata.v.landmarks.t = "object"
    /\ rec.v.metadata.v.landmarks.v[side].t = "array"
    /\ rec.v.metadata.v.landmarks.v[side].v # <<>>

\* record.metadata has no handedness list, or an empty one, or one whose
\* first entry is null.
NoHandednessEntry(rec) ==
    /\ rec.t = "object" /\ rec.v.metadata.t = "object"
    /\ \/ rec.v.metadata.v.handedness = Undefined
       \/ rec.v.metadata.v.handedness = Arr(<<>>)
       \/ rec.v.metadata.v.handedness = Arr(<<Null>>)

Left == Str(<<"L", "e", "f", "t">>)
Right == Str(<<"R", "i", "g", "h", "t">>)

\* C10: for every success body whose metadata has a non-empty landmarks.left
\* list and no explicit handedness entry, handDetected is "Left", whatever
\* landmarks.right holds.
C10_LeftLandmarksGiveLeft ==
    (detection # Pending /\ HasPoints(record, "left") /\ NoHandednessEntry(record))
        => (~detection.threw /\ detection.value.handDetected = Left)

\* C10 (amended): with a non-empty landmarks.left list, no explicit handedness
\* entry and landmarks.right absent or empty, handDetected is "Left"; with a
\* non-empty landmarks.right list as well it is "Right".
C10_LeftOnlyLandmarksGiveLeft ==
    (detection # Pending /\ HasPoints(record, "left") /\ NoHandednessEntry(record))
        => /\ ~detection.threw
           /\ detection.value.handDetected =
                IF HasPoints(record, "right") THEN Right ELSE Left

C10_Witness ==
    /\ detection # Pending
    /\ HasPoints(record, "left")
    /\ record.v.metadata.v.landmarks.v.right = Arr(<<>>)
    /\ record.v.metadata.v.handedness = Undefined
    /\ ~detection.threw
    /\ detection.value.handDetected = Left

(***************************************************************************)
(* Claims on the defaults of extractDetectionData (SpecExtract)            *)
(***************************************************************************)
\* A field is present when it is neither undefined nor null.
Present(x) == x.t \notin {"undefined", "null"}

\* record.metadata.handedness has a first entry that is present.
HandednessEntry(rec) ==
    /\ rec.v.metadata.t = "object"
    /\ rec.v.metadata.v.handedness.t = "array"
    /\ rec.v.metadata.v.handedness.v # <<>>
    /\ Present(rec.v.metadata.v.handedness.v[1])

\* record.metadata.landmarks[side] is absent or empty, metadata or landmarks
\* being absent included.
NoPoints(rec, side) ==
    \/ rec.v.metadata.t # "object"
    \/ rec.v.metadata.v.landmarks.t # "object"
    \/ rec.v.metadata.v.landmarks.v[side] \in {Undefined, Arr(<<>>)}

\* C11: on a record object whose fields are absent extractDetectionData does
\* not throw and degrades to defaults: detectedLetter is detected_as when
\* present, otherwise predicted_as when present, otherwise "-"; confidenceNum
\* is the confidence number when present, otherwise 0 with percentage "0%";
\* handDetected is the em dash when there is neither a handedness entry nor a
\* non-empty left or right landmark list, absent metadata included.
C11_AbsentFieldsDegrade ==
    (/\ detection # Pending
     /\ record.t = "object"
     /\ HandednessEntry(record) => record.v.metadata.v.handedness.v[1].t = "string")
        => /\ ~detection.threw
           /\ detection.value.detectedLetter =
                IF Present(record.v.detected_as) THEN record.v.detected_as
                ELSE IF Present(record.v.predicted_as) THEN record.v.predicted_as
                ELSE Str(<<"-">>)
           /\ record.v.confidence.t = "number"
                => detection.value.confidenceNum = record.v.confidence
           /\ ~Present(record.v.confidence)
                => /\ detection.value.confidenceNum = Num(0)
                   /\ detection.value.confidencePct = Str(<<"0", "%">>)
           /\ (~HandednessEntry(record) /\ NoPoints(record, "left") /\ NoPoints(record, "right"))
                => detection.value.handDetected = Str(<<EmDash>>)

\* A body with only predicted_as: the letter falls back to the prediction,
\* everything else to its default.
C11_Witness ==
    /\ detection # Pending
    /\ record = Obj([detected_as |-> Undefined, predicted_as |-> Str(<<"B">>),
                     confidence |-> Undefined, metadata |-> Undefined])
    /\ ~detection.threw
    /\ detection.value = [detectedLetter |-> Str(<<"B">>), confidenceNum |-> Num(0),
                          confidencePct |-> Str(<<"0", "%">>),
                          handDetected |-> Str(<<EmDash>>)]

\* The success body has the consumed shape: metadata, handedness and the
\* landmark lists are absent or of their declared type, handedness being a
\* list of strings.
ConsumedShape(rec) ==
    /\ rec.t = "object"
    /\ rec.v.metadata.t \in {"undefined", "object"}
    /\ rec.v.metadata.t = "object" =>
        /\ rec.v.metadata.v.handedness.t \in {"undefined", "array"}
        /\ rec.v.metadata.v.handedness.t = "array" =>
            \A k \in DOMAIN rec.v.metadata.v.handedness.v :
                rec.v.metadata.v.handedness.v[k].t = "string"
        /\ rec.v.metadata.v.landmarks.t \in {"undefined", "object"}
        /\ rec.v.metadata.v.landmarks.t = "object" =>
            \A side \in {"left", "right"} :
                rec.v.metadata.v.landmarks.v[side].t \in {"undefined", "array"}

\* C12: for every success body of the consumed shape the handDetected of the
\* derived record is "Left", "Right" or the em dash.
C12_HandIsLeftRightOrDash ==
    (detection # Pending /\ ConsumedShape(record))
        => /\ ~detection.threw
           /\ detection.value.handDetected \in {Left, Right, Str(<<EmDash>>)}

(***************************************************************************)
(* UI binding: enablePreviewToggle, captureSnapshot, updateResultsUI        *)
(***************************************************************************)
\* labelSpan.textContent = showLandmarks ? 'Hide Landmarks' : 'Show Landmarks'
updateToggleButtonLabel(show) == IF show THEN HideLandmarks ELSE ShowLandmarks

\* enablePreviewToggle(): returns early without the button or without its
\* .label child, otherwise writes the label and adds the click listener.
enablePreviewToggle ==
    /\ "enablePreviewToggle" \notin called
    /\ called' = called \cup {"enablePreviewToggle"}
    /\ IF "togglePreviewBtn" \notin document
       THEN UNCHANGED <<listeners, labelText>>
       ELSE IF "label" \notin document
            THEN UNCHANGED <<listeners, labelText>>
            ELSE /\ labelText' = updateToggleButtonLabel(showLandmarks)
                 /\ listeners' = listeners \cup {"togglePreviewBtn"}
    /\ UNCHANGED <<document, uncaught, showLandmarks>>

\* Mutant: the click handler leaves the overlay as it is.
toggleClickKeepsOverlay ==
    /\ "togglePreviewBtn" \in listeners
    /\ showLandmarks' = ~showLandmarks
    /\ labelText' = updateToggleButtonLabel(showLandmarks')
    /\ UNCHANGED <<overlay, uncaught>>
    /\ UNCHANGED <<document, called, listeners>>

\* Mutant: the click handler flips the flag and leaves the label as it is.
toggleClickKeepsLabel ==
    /\ "togglePreviewBtn" \in listeners
    /\ showLandmarks' = ~showLandmarks
    /\ IF showLandmarks'
       THEN UNCHANGED <<overlay, uncaught>>
       ELSE IF ctx = Undefined
            THEN /\ uncaught' = uncaught \cup {"toggleClick"}
                 /\ UNCHANGED overlay
            ELSE /\ overlay' = [overlay EXCEPT !.drawing = <<>>]
                 /\ UNCHANGED uncaught
    /\ UNCHANGED <<document, called, listeners, labelText>>

\* The click listener of the toggle button: flip the flag, rewrite the label,
\* and when the flag went off ctx.clearRect over the whole overlay, which is a
\* TypeError while ctx is undefined.
toggleClick ==
    /\ "togglePreviewBtn" \in listeners
    /\ showLandmarks' = ~showLandmarks
    /\ labelText' = updateToggleButtonLabel(showLandmarks')
    /\ IF showLandmarks'
       THEN UNCHANGED <<overlay, uncaught>>
       ELSE IF ctx = Undefined
            THEN /\ uncaught' = uncaught \cup {"toggleClick"}
                 /\ UNCHANGED overlay
            ELSE /\ overlay' = [overlay EXCEPT !.drawing = <<>>]
                 /\ UNCHANGED uncaught
    /\ UNCHANGED <<document, called, listeners>>

\* captureSnapshot(): document.getElementById(buttonId).addEventListener(...),
\* a TypeError when getElementById returned null.
captureSnapshot ==
    /\ "captureSnapshot" \notin called
    /\ called' = called \cup {"captureSnapshot"}
    /\ IF "captureBtn" \in document
       THEN /\ listeners' = listeners \cup {"captureBtn"}
            /\ UNCHANGED uncaught
       ELSE /\ uncaught' = uncaught \cup {"captureSnapshot"}
            /\ UNCHANGED listeners
    /\ UNCHANGED <<document, labelText, showLandmarks>>

\* The records that updateResultsUI is handed: what extractDetectionData makes
\* of the success bodies.
DetectionResults ==
    {extractDetectionData(body).value :
        body \in {b \in JSONValues : ~extractDetectionData(b).threw}}

videoUnchanged ==
    UNCHANGED <<setup, cameraRequests, video, offscreen, ctx, landmarker, latestLandmarks,
                pendingFrames, ticks>>

EnablePreviewToggle ==
    /\ enablePreviewToggle
    /\ videoUnchanged
    /\ UNCHANGED <<overlay, storeVars, extractVars, captureVars, originalVars>>

ToggleClick ==
    /\ toggleClick
    /\ videoUnchanged
    /\ UNCHANGED <<storeVars, extractVars, captureVars, originalVars>>

CaptureSnapshot ==
    /\ captureSnapshot
    /\ videoUnchanged
    /\ UNCHANGED <<overlay, storeVars, extractVars, captureVars, originalVars>>

UpdateResultsUI ==
    /\ \E result \in DetectionResults : updateResultsUI(result)
    /\ UNCHANGED <<selected, captures, posts, alerts, console, offscreenDraws>>
    /\ UNCHANGED <<storeVars, extractVars, pageVars>>

BindNext ==
    \/ EnablePreviewToggle
    \/ CaptureSnapshot
    \/ ToggleClick
    \/ UpdateResultsUI

\* A page whose markup holds any part of the elements that the script binds
\* to, before the script ran.
InitBind ==
    /\ document \in {d \in SUBSET BindIds : "label" \in d => "togglePreviewBtn" \in d}
    /\ BindInit
    /\ VideoInit
    /\ StoreInit
    /\ record = Undefined
    /\ detection = Pending
    /\ selected = Null
    /\ captures = [i \in 1..MaxCaptures |-> IdleCapture]
    /\ MSL_STATE = Undefined
    /\ elements \in [ElementIds -> {Null, Obj([textContent |-> Str(<<>>)])}]
    /\ posts = [i \in 1..MaxCaptures |-> Null]
    /\ alerts = 0
    /\ console = Undefined
    /\ offscreenDraws = 0
    /\ original = [OriginalIdle EXCEPT !.elements = elements]
    /\ inputs = NoInputs

SpecBind == InitBind /\ [][BindNext]_vars

\* C13: whichever of togglePreviewBtn, its .label child, captureBtn,
\* resultLetter, resultConfidence and resultHand is missing, none of
\* enablePreviewToggle, captureSnapshot and updateResultsUI throws, and each
\* binds its feature exactly when its own elements are in the page.
C13_MissingElementDisablesOnlyItsFeature ==
    /\ uncaught \cap {"enablePreviewToggle", "captureSnapshot", "updateResultsUI"} = {}
    /\ "enablePreviewToggle" \in called
        => ("togglePreviewBtn" \in listeners
                <=> {"togglePreviewBtn", "label"} \subseteq document)
    /\ "captureSnapshot" \in called
        => ("captureBtn" \in listeners <=> "captureBtn" \in document)
    /\ MSL_STATE # Undefined
        => \A id \in ElementIds :
                elements[id] # Null => elements[id].v.textContent # Str(<<>>)

(***************************************************************************)
(* Capture pipeline and landmark render loop                               *)
(***************************************************************************)
\* CONFIG.DETECTION.numHands: the most hands the landmarker returns per frame
numHands == 2

\* runs of processFrame in one life of the page
MaxTicks == 3

\* The keys of FINGER_CONNECTIONS in the order for...in visits them.
Fingers == <<"thumb", "index", "middle", "ring", "pinky", "palm">>

FINGER_CONNECTIONS ==
    [thumb |-> <<<<0, 1>>, <<1, 2>>, <<2, 3>>, <<3, 4>>>>,
     index |-> <<<<5, 6>>, <<6, 7>>, <<7, 8>>>>,
     middle |-> <<<<9, 10>>, <<10, 11>>, <<11, 12>>>>,
     ring |-> <<<<13, 14>>, <<14, 15>>, <<15, 16>>>>,
     pinky |-> <<<<17, 18>>, <<18, 19>>, <<19, 20>>>>,
     palm |-> <<<<0, 5>>, <<5, 9>>, <<9, 13>>, <<13, 17>>, <<0, 17>>>>]

FINGER_COLORS ==
    [thumb |-> <<255, 0, 0>>, index |-> <<0, 255, 0>>, middle |-> <<0, 0, 255>>,
     ring |-> <<255, 255, 0>>, pinky |-> <<255, 0, 255>>, palm |-> <<200, 200, 200>>]

DRAWING == [lineWidth |-> 8, landmarkRadius |-> 8, landmarkColor |-> "white"]

\* The native resolutions a granted camera stream can have.
Resolutions == {[width |-> 1920, height |-> 1080], [width |-> 640, height |-> 480]}

\* A hand as the landmarker returns it: 21 points, coordinates in thousandths
\* of the frame's width and height.
Hand(k) == [i \in 0..20 |-> [x |-> 40 * i + 100, y |-> 300 * k + 200]]
Hands == {Hand(0), Hand(1)}

\* What landmarker.detectForVideo returns for a frame: up to numHands hands,
\* or a result without landmarks.
FrameResults ==
    {Obj([landmarks |-> Undefined])} \cup
    {Obj([landmarks |-> Arr(hands)]) : hands \in UNION {[1..n -> Hands] : n \in 0..numHands}}

RECURSIVE Flatten(_)
Flatten(seqs) == IF seqs = <<>> THEN <<>> ELSE Head(seqs) \o Flatten(Tail(seqs))

\* One pass of the inner forEach of drawFingerConnections: a stroked segment
\* from hand[start] to hand[end] in the colour of the finger.
fingerStrokes(finger, hand, canvas) ==
    [k \in 1..Len(FINGER_CONNECTIONS[finger]) |->
        LET p1 == hand[FINGER_CONNECTIONS[finger][k][1]]
            p2 == hand[FINGER_CONNECTIONS[finger][k][2]]
        IN  [op |-> "stroke", lineWidth |-> DRAWING.lineWidth,
             strokeStyle |-> FINGER_COLORS[finger],
             from |-> <<p1.x * canvas.width, p1.y * canvas.height>>,
             to |-> <<p2.x * canvas.width, p2.y * canvas.height>>]]

drawFingerConnections(hand, canvas) ==
    Flatten([f \in 1..Len(Fingers) |-> fingerStrokes(Fingers[f], hand, canvas)])

drawLandmarkPoints(hand, canvas) ==
    [k \in 1..21 |->
        [op |-> "fill", fillStyle |-> DRAWING.landmarkColor,
         center |-> <<hand[k - 1].x * canvas.width, hand[k - 1].y * canvas.height>>,
         radius |-> DRAWING.landmarkRadius]]

\* latestLandmarks.forEach: per hand the connections, then the points.
drawHandLandmarks(hands, canvas) ==
    Flatten([k \in 1..Len(hands) |->
                drawFingerConnections(hands[k], canvas) \o drawLandmarkPoints(hands[k], canvas)])

\* A getUserMedia call and the same call once it settled.
Request(constraints) == [constraints |-> constraints, outcome |-> "pending"]
Settled(requests, outcome) == [requests EXCEPT ![Len(requests)].outcome = outcome]

\* enableVideoProcessing() up to the first await of setupWebcam: the let
\* variables assigned, the high-resolution stream requested.
enableVideoProcessing ==
    /\ "enableVideoProcessing" \notin called
    /\ called' = called \cup {"enableVideoProcessing"}
    /\ ctx' = Context2D
    /\ offscreen' = Obj(DefaultCanvas)
    /\ cameraRequests' = Append(cameraRequests, Request(HighRequest))
    /\ setup' = "highRequest"
    /\ UNCHANGED <<video, overlay, landmarker, latestLandmarks, pendingFrames, ticks>>

\* Mutant: the catch of setupWebcam gives up instead of asking again.
catchCameraErrorGivesUp ==
    /\ cameraRequests' = Settled(cameraRequests, "denied")
    /\ setup' = "cameraFailed"

\* catch { const stream = await navigator.mediaDevices.getUserMedia(fallback)
catchCameraError ==
    /\ cameraRequests' = Append(Settled(cameraRequests, "denied"), Request(FallbackRequest))
    /\ setup' = "fallbackRequest"

\* The first getUserMedia settles: video.srcObject = stream and the wait for
\* the metadata, or the catch block.
highRequestSettles ==
    /\ setup = "highRequest"
    /\ \/ \E size \in Resolutions :
            /\ cameraRequests' = Settled(cameraRequests, "granted")
            /\ video' = [video EXCEPT !.srcObject = Obj(size)]
            /\ setup' = "highMetadata"
       \/ /\ catchCameraError
          /\ UNCHANGED video
    /\ UNCHANGED <<overlay, offscreen, ctx, landmarker, latestLandmarks, pendingFrames, ticks>>

\* The second getUserMedia settles: video.srcObject = stream and the wait for
\* the metadata, or the rejection leaves setupWebcam and enableVideoProcessing.
fallbackRequestSettles ==
    /\ setup = "fallbackRequest"
    /\ \/ \E size \in Resolutions :
            /\ cameraRequests' = Settled(cameraRequests, "granted")
            /\ video' = [video EXCEPT !.srcObject = Obj(size)]
            /\ setup' = "fallbackMetadata"
       \/ /\ cameraRequests' = Settled(cameraRequests, "denied")
          /\ setup' = "cameraFailed"
          /\ UNCHANGED video
    /\ UNCHANGED <<overlay, offscreen, ctx, landmarker, latestLandmarks, pendingFrames, ticks>>

\* Mutant: only the overlay takes the size of the video.
setupCanvasesOverlayOnly(v) ==
    /\ overlay' = [overlay EXCEPT !.width = v.videoWidth, !.height = v.videoHeight]
    /\ UNCHANGED offscreen

\* overlay.width = offscreen.width = video.videoWidth, and the heights alike
setupCanvases(v) ==
    /\ overlay' = [overlay EXCEPT !.width = v.videoWidth, !.height = v.videoHeight]
    /\ offscreen' = Obj([width |-> v.videoWidth, height |-> v.videoHeight])

\* video.onloadedmetadata fires: the video knows its native size, setupWebcam
\* returns, setupCanvases runs and initializeHandLandmarker awaits the
\* vision fileset.
metadataLoaded ==
    /\ setup \in {"highMetadata", "fallbackMetadata"}
    /\ video' = [video EXCEPT !.videoWidth = video.srcObject.v.width,
                               !.videoHeight = video.srcObject.v.height]
    /\ setupCanvases(video')
    /\ setup' = "vision"
    /\ UNCHANGED <<cameraRequests, ctx, landmarker, latestLandmarks, pendingFrames, ticks>>

\* FilesetResolver.forVisionTasks settles: createFromOptions is awaited, or
\* the rejection leaves enableVideoProcessing.
visionSettles ==
    /\ setup = "vision"
    /\ setup' \in {"model", "modelFailed"}
    /\ UNCHANGED <<cameraRequests, video, overlay, offscreen, ctx, landmarker, latestLandmarks,
                   pendingFrames, ticks>>

\* HandLandmarker.createFromOptions settles: landmarker assigned and
\* requestAnimationFrame(processFrame), or the rejection leaves
\* enableVideoProcessing.
modelSettles ==
    /\ setup = "model"
    /\ \/ /\ landmarker' = Obj([runningMode |-> Str(<<"VIDEO">>), numHands |-> Num(numHands)])
          /\ pendingFrames' = pendingFrames + 1
          /\ setup' = "running"
       \/ /\ setup' = "modelFailed"
          /\ UNCHANGED <<landmarker, pendingFrames>>
    /\ UNCHANGED <<cameraRequests, video, overlay, offscreen, ctx, latestLandmarks, ticks>>

\* Mutant: the tick draws over what the overlay holds.
processFrameDrawsOver ==
    /\ pendingFrames > 0
    /\ ticks < MaxTicks
    /\ \E result \in FrameResults :
        LET latest == IF Truthy(result.v.landmarks) THEN result.v.landmarks ELSE Arr(<<>>)
        IN  /\ latestLandmarks' = latest
            /\ overlay' =
                [overlay EXCEPT !.drawing =
                    IF showLandmarks THEN overlay.drawing \o drawHandLandmarks(latest.v, overlay)
                    ELSE overlay.drawing]
    /\ pendingFrames' = (pendingFrames - 1) + 1
    /\ ticks' = ticks + 1
    /\ UNCHANGED <<setup, cameraRequests, video, offscreen, ctx, landmarker>>

\* Mutant: the tick does not ask for the next frame.
processFrameOnce ==
    /\ pendingFrames > 0
    /\ ticks < MaxTicks
    /\ \E result \in FrameResults :
        LET latest == IF Truthy(result.v.landmarks) THEN result.v.landmarks ELSE Arr(<<>>)
        IN  /\ latestLandmarks' = latest
            /\ overlay' =
                [overlay EXCEPT !.drawing =
                    IF showLandmarks THEN drawHandLandmarks(latest.v, overlay) ELSE <<>>]
    /\ pendingFrames' = pendingFrames - 1
    /\ ticks' = ticks + 1
    /\ UNCHANGED <<setup, cameraRequests, video, offscreen, ctx, landmarker>>

\* One pending frame callback runs processFrame: detect, latestLandmarks =
\* result.landmarks || [], clearRect over the whole overlay, draw when
\* showLandmarks, requestAnimationFrame(processFrame).
processFrame ==
    /\ pendingFrames > 0
    /\ ticks < MaxTicks
    /\ \E result \in FrameResults :
        LET latest == IF Truthy(result.v.landmarks) THEN result.v.landmarks ELSE Arr(<<>>)
        IN  /\ latestLandmarks' = latest
            /\ overlay' =
                [overlay EXCEPT !.drawing =
                    IF showLandmarks THEN drawHandLandmarks(latest.v, overlay) ELSE <<>>]
    /\ pendingFrames' = (pendingFrames - 1) + 1
    /\ ticks' = ticks + 1
    /\ UNCHANGED <<setup, cameraRequests, video, offscreen, ctx, landmarker>>

restUnchanged == UNCHANGED <<storeVars, extractVars, captureVars, originalVars>>

EnableVideoProcessing ==
    /\ enableVideoProcessing
    /\ UNCHANGED <<document, listeners, uncaught, labelText, showLandmarks>>
    /\ restUnchanged

HighRequestSettles == highRequestSettles /\ UNCHANGED bindVars /\ restUnchanged
FallbackRequestSettles == fallbackRequestSettles /\ UNCHANGED bindVars /\ restUnchanged
MetadataLoaded == metadataLoaded /\ UNCHANGED bindVars /\ restUnchanged
VisionSettles == visionSettles /\ UNCHANGED bindVars /\ restUnchanged
ModelSettles == modelSettles /\ UNCHANGED bindVars /\ restUnchanged
ProcessFrame == processFrame /\ UNCHANGED bindVars /\ restUnchanged

VideoNext ==
    \/ EnablePreviewToggle
    \/ ToggleClick
    \/ EnableVideoProcessing
    \/ HighRequestSettles
    \/ FallbackRequestSettles
    \/ MetadataLoaded
    \/ VisionSettles
    \/ ModelSettles
    \/ ProcessFrame

\* The page with its full markup before its script ran.
InitVideo ==
    /\ document = BindIds
    /\ BindInit
    /\ VideoInit
    /\ StoreInit
    /\ record = Undefined
    /\ detection = Pending
    /\ CaptureInit

SpecVideo == InitVideo /\ [][VideoNext]_vars

(***************************************************************************)
(* Claims on the capture pipeline, the render loop and the toggle          *)
(***************************************************************************)
\* C14: setupWebcam asks for the camera at most twice: first with the
\* high-resolution constraint, then, exactly when that request failed, once
\* with the "any video" constraint; enableVideoProcessing fails on the camera
\* only when both requests failed, and there is no third request.
C14_AtMostTwoCameraRequests ==
    /\ Len(cameraRequests) <= 2
    /\ Len(cameraRequests) >= 1 => cameraRequests[1].constraints = HighRequest
    /\ Len(cameraRequests) = 2
        <=> (Len(cameraRequests) >= 1 /\ cameraRequests[1].outcome = "denied")
    /\ Len(cameraRequests) = 2 => cameraRequests[2].constraints = FallbackRequest
    /\ setup = "cameraFailed"
        <=> (Len(cameraRequests) = 2 /\ cameraRequests[2].outcome = "denied")

\* The high-resolution request was refused, the fallback granted, and the
\* initialization went on to the render loop.
C14_Witness ==
    /\ Len(cameraRequests) = 2
    /\ cameraRequests[1].outcome = "denied"
    /\ cameraRequests[2].outcome = "granted"
    /\ setup = "running"

\* Both canvases have the native size of the video, whose metadata is loaded.
CanvasesSized ==
    /\ video.srcObject # Null
    /\ video.videoWidth = video.srcObject.v.width
    /\ video.videoHeight = video.srcObject.v.height
    /\ overlay.width = video.videoWidth /\ overlay.height = video.videoHeight
    /\ offscreen = Obj([width |-> video.videoWidth, height |-> video.videoHeight])

\* Neither canvas has been given a size.
CanvasesUnsized ==
    /\ overlay.width = DefaultCanvas.width /\ overlay.height = DefaultCanvas.height
    /\ offscreen \in {Undefined, Obj(DefaultCanvas)}

\* C18: enableVideoProcessing keeps its order: the canvases are sized, both
\* to the native size of the video, only once a stream was obtained and its
\* metadata loaded; the landmark model is created only after that; a render
\* tick is scheduled only once the model exists; and when the camera or the
\* model fails no render tick ever runs.
C18_SetupInOrder ==
    /\ CanvasesSized \/ CanvasesUnsized
    /\ CanvasesSized
        => \E k \in DOMAIN cameraRequests : cameraRequests[k].outcome = "granted"
    /\ setup \in {"vision", "model", "modelFailed", "running"} => CanvasesSized
    /\ landmarker # Undefined => (CanvasesSized /\ setup = "running")
    /\ (pendingFrames > 0 \/ ticks > 0 \/ latestLandmarks # Undefined)
        => landmarker # Undefined
    /\ setup \in {"cameraFailed", "modelFailed"}
        => (landmarker = Undefined /\ pendingFrames = 0 /\ ticks = 0)
    /\ setup = "cameraFailed" => CanvasesUnsized

\* The whole sequence ran on a stream of 640 x 480 and the loop has ticked.
C18_Witness ==
    /\ setup = "running"
    /\ ticks > 0
    /\ landmarker # Undefined
    /\ video.videoWidth = 640
    /\ CanvasesSized

\* C15: whatever the interleaving of render ticks and toggle clicks, the
\* overlay holds no drawing whenever showLandmarks is false: a tick with the
\* flag off draws nothing and the click that turns it off clears the overlay
\* at once.
C15_HiddenMeansEmptyOverlay == ~showLandmarks => overlay.drawing = <<>>

\* The loop has ticked with hands in the frame, the flag is off and the
\* overlay is empty.
C15_Witness ==
    /\ setup = "running"
    /\ ticks > 0
    /\ latestLandmarks # Undefined
    /\ latestLandmarks.v # <<>>
    /\ ~showLandmarks
    /\ overlay.drawing = <<>>

\* C16: at the end of every render tick the overlay holds exactly the
\* drawing of the hands detected in that tick when showLandmarks is true and
\* nothing otherwise; nothing of an earlier tick is left.
C16_TickDrawsThisFrameOnly ==
    [][ticks' # ticks
        => /\ latestLandmarks'.t = "array"
           /\ overlay'.drawing =
                IF showLandmarks' THEN drawHandLandmarks(latestLandmarks'.v, overlay')
                ELSE <<>>]_vars

\* After a second tick the overlay shows the one hand of that tick.
C16_Witness ==
    /\ ticks >= 2
    /\ showLandmarks
    /\ latestLandmarks = Arr(<<Hand(1)>>)
    /\ Len(overlay.drawing) = 42
    /\ overlay.drawing = drawHandLandmarks(<<Hand(1)>>, overlay)

\* C19: once enablePreviewToggle has bound the button, the label reads
\* "Hide Landmarks" exactly when showLandmarks is true and "Show Landmarks"
\* exactly when it is false, and every click flips the flag, also a click
\* that comes before enableVideoProcessing assigned ctx.
C19_LabelFollowsFlag ==
    [][/\ "togglePreviewBtn" \in listeners'
            => labelText' = (IF showLandmarks' THEN HideLandmarks ELSE ShowLandmarks)
       /\ ToggleClick => showLandmarks' = ~showLandmarks]_vars

\* A click before enableVideoProcessing was called turned the flag off: the
\* label follows although the handler then threw on ctx.
C19_Witness ==
    /\ "togglePreviewBtn" \in listeners
    /\ "enableVideoProcessing" \notin called
    /\ ctx = Undefined
    /\ "toggleClick" \in uncaught
    /\ ~showLandmarks
    /\ labelText = ShowLandmarks

(***************************************************************************)
(* The render loop next to the toggle and one run of the capture handler   *)
(***************************************************************************)
\* The first run of the capture button's click handler, step by step.
UploadClick == click(1) /\ UNCHANGED pageVars
UploadBlobReady == (\E blob \in Blobs : blobReady(1, blob)) /\ UNCHANGED pageVars
UploadFetchSettles == fetchSettles(1) /\ UNCHANGED pageVars
UploadErrJsonSettles == errJsonSettles(1) /\ UNCHANGED pageVars
UploadErrTextSettles == errTextSettles(1) /\ UNCHANGED pageVars
UploadOkJsonSettles == okJsonSettles(1) /\ UNCHANGED pageVars

LoopNext ==
    \/ ProcessFrame
    \/ ToggleClick
    \/ SelectLetter
    \/ UploadClick
    \/ UploadBlobReady
    \/ UploadFetchSettles
    \/ UploadErrJsonSettles
    \/ UploadErrTextSettles
    \/ UploadOkJsonSettles

\* enableVideoProcessing has just returned: both buttons bound, a stream
\* attached, the canvases sized, the model created, the first frame callback
\* requested.
InitLoop ==
    /\ document = BindIds
    /\ called = {"enablePreviewToggle", "captureSnapshot", "enableVideoProcessing"}
    /\ listeners = {"togglePreviewBtn", "captureBtn"}
    /\ uncaught = {}
    /\ labelText = HideLandmarks
    /\ showLandmarks = TRUE
    /\ setup = "running"
    /\ cameraRequests = <<[constraints |-> HighRequest, outcome |-> "granted"]>>
    /\ \E size \in Resolutions :
        /\ video = [srcObject |-> Obj(size), videoWidth |-> size.width,
                    videoHeight |-> size.height]
        /\ overlay = [width |-> size.width, height |-> size.height, drawing |-> <<>>]
        /\ offscreen = Obj(size)
    /\ ctx = Context2D
    /\ landmarker = Obj([runningMode |-> Str(<<"VIDEO">>), numHands |-> Num(numHands)])
    /\ latestLandmarks = Undefined
    /\ pendingFrames = 1
    /\ ticks = 0
    /\ StoreInit
    /\ record = Undefined
    /\ detection = Pending
    /\ CaptureInit

SpecLoop == InitLoop /\ [][LoopNext]_vars

\* The browser runs a requested animation frame callback at its next repaint.
SpecLoopFair == SpecLoop /\ WF_vars(ProcessFrame)

\* C17: once the render loop has started exactly one frame callback is
\* pending between ticks, every tick leaves exactly one pending, and the
\* loop goes on ticking (up to MaxTicks ticks here) whatever the capture
\* handler and the visibility flag are doing.
C17_LoopKeepsTicking ==
    /\ [](setup = "running" => pendingFrames = 1)
    /\ [][ticks' # ticks => (ticks' = ticks + 1 /\ pendingFrames' = 1)]_vars
    /\ \A n \in 0..(MaxTicks - 1) : (setup = "running" /\ ticks = n) ~> (ticks = n + 1)

\* The loop has ticked with the overlay hidden while an upload is in flight,
\* and the next frame callback is pending.
C17_Witness ==
    /\ setup = "running"
    /\ ticks >= 2
    /\ pendingFrames = 1
    /\ ~showLandmarks
    /\ captures[1].pc = "fetch"

(***************************************************************************)
(* Claims on captures in flight together (SpecCapture)                     *)
(***************************************************************************)
\* What window.MSL_STATE and the result elements hold once the record derived
\* from the success body b was written to them.
Shown(b) ==
    LET result == extractDetectionData(b).value
    IN  [msl |-> Obj([lastDetectedLetter |-> result.detectedLetter,
                      lastConfidenceNum |-> result.confidenceNum,
                      lastConfidencePct |-> result.confidencePct,
                      lastHand |-> result.handDetected]),
         resultLetter |-> Str(<<"Letter detected: ">> \o TemplateText(result.detectedLetter)),
         resultConfidence |-> Str(<<"Confidence: ">> \o TemplateText(result.confidencePct)),
         resultHand |-> Str(<<"Hand detected: ">> \o TemplateText(result.handDetected))]

\* window.MSL_STATE and every result element in the page show the record
\* derived from the success body b.
Shows(b) ==
    /\ ~extractDetectionData(b).threw
    /\ MSL_STATE = Shown(b).msl
    /\ \A id \in ElementIds :
        elements[id] # Null => elements[id].v.textContent = Shown(b)[id]

\* Nothing has been shown yet.
ShowsNothing ==
    /\ MSL_STATE = Undefined
    /\ \A id \in ElementIds :
        elements[id] # Null => elements[id].v.textContent = Str(<<>>)

\* Run i of the handler ends in this step with its results shown.
Updates(i) == captures[i].outcome # "updated" /\ captures'[i].outcome = "updated"

\* C20: with several captures in flight window.MSL_STATE and the result
\* elements show nothing or one and the same response body, never parts of
\* two; a run that ends successfully leaves them showing its own response,
\* and no other step changes them, so that once all runs have ended they
\* show the response that was processed last, whichever click it belongs to.
C20_OneResponseShown ==
    [][IF \E i \in 1..MaxCaptures : Updates(i)
       THEN \A i \in 1..MaxCaptures :
                Updates(i) =>
                    LET parsed == JSONParse(captures[i].response.body)
                        shown == Shown(parsed.value)
                    IN  /\ parsed.ok
                        /\ ~extractDetectionData(parsed.value).threw
                        /\ MSL_STATE' = shown.msl
                        /\ \A id \in ElementIds :
                            elements'[id] # Null
                                => elements'[id].v.textContent = shown[id]
       ELSE /\ UNCHANGED <<MSL_STATE, elements>>
            /\ ShowsNothing \/ \E i \in 1..MaxCaptures : captures[i].outcome = "updated"]_vars

\* The second click's response has been processed and is shown while the
\* success response of the first click is still waiting to be parsed.
C20_Witness ==
    /\ captures[1].pc = "okJson"
    /\ captures[2].outcome = "updated"
    /\ \E b \in JSONValues : Shows(b)

(***************************************************************************)
(* The original inline capture handler: video-processing.js, second        *)
(* captureSnapshot                                                          *)
(***************************************************************************)
\* const detectedLetter = record.detected_as ?? record.predicted_as ?? '-'
inlineDetectedLetter(rec) ==
    Coalesce(Coalesce(Prop(rec, "detected_as"), Prop(rec, "predicted_as")), Str(<<"-">>))

\* const confidenceNum = Number(record.confidence ?? 0)
inlineConfidenceNum(rec) == ToNumber(Coalesce(Prop(rec, "confidence"), Num(0)))

\* const handRaw = record?.metadata?.handedness?.[0] ??
\*     (record?.metadata?.landmarks?.right?.length ? 'right' :
\*         record?.metadata?.landmarks?.left?.length ? 'left' : null)
inlineHandRaw(rec) ==
    LET metadata == OptProp(rec, "metadata")
        landmarks == OptProp(metadata, "landmarks")
    IN  Coalesce(OptIndex0(OptProp(metadata, "handedness")),
                 IF Truthy(OptProp(OptProp(landmarks, "right"), "length")) THEN Str(right)
                 ELSE IF Truthy(OptProp(OptProp(landmarks, "left"), "length")) THEN Str(left)
                 ELSE Null)

\* Mutant: the hand is shown as the server sent it.
inlineHandDetectedAsSent(raw) == IF Truthy(raw) THEN raw ELSE Str(<<EmDash>>)

\* const handDetected = handRaw ? handRaw.charAt(0).toUpperCase() + handRaw.slice(1) : EmDash
inlineHandDetected(raw) ==
    IF Truthy(raw)
    THEN Str(toUpperCase(charAt(raw.v, 0)) \o slice1(raw.v))
    ELSE Str(<<EmDash>>)

\* const confidencePct = `${Math.round(confidenceNum * 100)}%`
inlineConfidencePct(num) ==
    IF num.t = "NaN" THEN Str(<<"NaN", "%">>)
    ELSE Str(<<ToString((num.v + 5) \div 10), "%">>)

\* record.detected_as on null or undefined and handRaw.charAt on a truthy
\* value that is no string throw a TypeError.
inlineThrows(rec) ==
    \/ IsNullish(rec)
    \/ (Truthy(inlineHandRaw(rec)) /\ inlineHandRaw(rec).t # "string")

\* catch (err) { console.error('Error sending:', err.message); }
inlineCatch(message) ==
    original' = [original EXCEPT !.console = Str(message), !.pc = "done",
                                 !.letter = Null, !.response = Null, !.outcome = "failed"]

\* The click listener up to toBlob: return alert(...) when no radio is checked,
\* else letter = selected.value, drawImage onto the offscreen canvas, toBlob.
originalClick ==
    /\ original.pc = "idle"
    /\ original' =
        IF ~Truthy(selected)
        THEN [original EXCEPT !.alerts = @ + 1, !.pc = "done", !.outcome = "alerted"]
        ELSE [original EXCEPT !.letter = Prop(selected, "value"),
                              !.offscreenDraws = @ + 1, !.pc = "toBlob"]

\* The callback of toBlob up to its await of fetch: the form is built
\* (FormData.append throws on a null blob) and posted.
originalBlobReady(blob) ==
    /\ original.pc = "toBlob"
    /\ IF blob = Null
       THEN inlineCatch(<<"TypeError: parameter 2 is not of type 'Blob'">>)
       ELSE original' =
                [original EXCEPT
                    !.post = Obj([method |-> Str(<<"POST">>), path |-> Str(<<"/process/">>),
                                  image |-> Str(TemplateText(original.letter)
                                                \o <<"_", "<uuid8>", ".png">>),
                                  label |-> original.letter]),
                    !.letter = Null,
                    !.pc = "fetch"]

\* fetch settles: a rejection goes to the catch, a response that is not ok to
\* the error branch and its resp.json(), an ok one to resp.json().
originalFetchSettles(fetched) ==
    /\ original.pc = "fetch"
    /\ IF fetched = Null
       THEN inlineCatch(<<"TypeError: Failed to fetch">>)
       ELSE original' =
                [original EXCEPT !.response = fetched,
                                 !.pc = IF Ok(fetched.status) THEN "okJson" ELSE "errJson"]

\* The error branch after resp.json() settled: throw new Error(errDetail) with
\* the detail or the payload, or the inner catch and its resp.text().
originalErrJsonSettles ==
    /\ original.pc = "errJson"
    /\ LET resp == original.response
           payload == ResponseJson(resp)
       IN  IF payload.ok /\ ~IsNullish(payload.value)
           THEN inlineCatch(<<"HTTP ", ToString(resp.status), ": ">>
                            \o TemplateText(Coalesce(Prop(payload.value, "detail"),
                                                     Str(JSONStringify(payload.value)))))
           ELSE original' = [original EXCEPT !.response = Read(resp), !.pc = "errText"]

\* The inner catch after resp.text() settled.
originalErrTextSettles ==
    /\ original.pc = "errText"
    /\ LET resp == original.response
           text == ResponseText(resp)
       IN  IF text.ok
           THEN inlineCatch(<<"HTTP ", ToString(resp.status), ": ">> \o TemplateText(text.value))
           ELSE inlineCatch(text.error)

\* const record = await resp.json() and everything after it: the fields are
\* extracted, window.MSL_STATE assigned and the result elements present
\* rewritten.
originalOkJsonSettles ==
    /\ original.pc = "okJson"
    /\ LET parsed == ResponseJson(original.response)
       IN  IF ~parsed.ok
           THEN inlineCatch(parsed.error)
           ELSE IF inlineThrows(parsed.value)
           THEN inlineCatch(<<"TypeError">>)
           ELSE LET letterShown == inlineDetectedLetter(parsed.value)
                    num == inlineConfidenceNum(parsed.value)
                    pct == inlineConfidencePct(num)
                    hand == inlineHandDetected(inlineHandRaw(parsed.value))
                IN  original' =
                        [original EXCEPT
                            !.MSL_STATE = Obj([lastDetectedLetter |-> letterShown,
                                               lastConfidenceNum |-> num,
                                               lastConfidencePct |-> pct,
                                               lastHand |-> hand]),
                            !.elements =
                                [id \in ElementIds |->
                                    IF original.elements[id] = Null THEN Null
                                    ELSE Obj([textContent |-> Str(
                                        CASE id = "resultLetter" ->
                                                <<"Letter detected: ">> \o TemplateText(letterShown)
                                          [] id = "resultConfidence" ->
                                                <<"Confidence: ">> \o TemplateText(pct)
                                          [] id = "resultHand" ->
                                                <<"Hand detected: ">> \o TemplateText(hand))])],
                            !.response = Null,
                            !.pc = "done",
                            !.outcome = "updated"]

\* The original handler's steps leave the page of the refactored one alone.
refactoredUnchanged ==
    UNCHANGED <<inputs, storeVars, extractVars, captureVars, bindVars, videoVars>>

OriginalClick == originalClick /\ refactoredUnchanged
OriginalBlobReady == originalBlobReady(inputs.blob) /\ refactoredUnchanged
OriginalFetchSettles == originalFetchSettles(inputs.fetch) /\ refactoredUnchanged
OriginalErrJsonSettles == originalErrJsonSettles /\ refactoredUnchanged
OriginalErrTextSettles == originalErrTextSettles /\ refactoredUnchanged
OriginalOkJsonSettles == originalOkJsonSettles /\ refactoredUnchanged

\* The first run of the refactored handler on the same blob and the same
\* outcome of fetch.
RefactoredBlobReady == blobReady(1, inputs.blob) /\ UNCHANGED pageVars
RefactoredFetchSettles ==
    /\ fetchSettles(1)
    /\ IF inputs.fetch = Null
       THEN captures'[1].pc = "done"
       ELSE captures'[1].response = inputs.fetch
    /\ UNCHANGED pageVars

EquivNext ==
    \/ UploadClick
    \/ RefactoredBlobReady
    \/ RefactoredFetchSettles
    \/ UploadErrJsonSettles
    \/ UploadErrTextSettles
    \/ UploadOkJsonSettles
    \/ OriginalClick
    \/ OriginalBlobReady
    \/ OriginalFetchSettles
    \/ OriginalErrJsonSettles
    \/ OriginalErrTextSettles
    \/ OriginalOkJsonSettles

\* Two copies of the loaded page, one per version of the handler, with the
\* same radio checked or none, and the same blob and the same outcome of
\* fetch (null: fetch rejects) in store for the one capture of each.
InitEquiv ==
    /\ selected \in Radios \cup {Null}
    /\ inputs \in [blob : Blobs, fetch : Responses \cup {Null}]
    /\ original = OriginalIdle
    /\ captures = [i \in 1..MaxCaptures |-> IdleCapture]
    /\ MSL_STATE = Undefined
    /\ elements = [id \in ElementIds |-> Obj([textContent |-> Str(<<>>)])]
    /\ posts = [i \in 1..MaxCaptures |-> Null]
    /\ alerts = 0
    /\ console = Undefined
    /\ offscreenDraws = 0
    /\ StoreInit
    /\ record = Undefined
    /\ detection = Pending
    /\ PageLoaded

SpecEquiv == InitEquiv /\ [][EquivNext]_vars

\* Both handlers have run to their end.
BothDone == captures[1].pc = "done" /\ original.pc = "done"

\* The two pages show the same: the same decision to post, the same label
\* posted, the same window.MSL_STATE and the same result texts.
SameOutcome ==
    /\ posts[1] = Null <=> original.post = Null
    /\ posts[1] # Null => posts[1].v.label = original.post.v.label
    /\ MSL_STATE = original.MSL_STATE
    /\ elements = original.elements

\* The checked radio has the empty string as its value.
EmptyValueChecked == selected # Null /\ selected.v.value = Str(<<>>)

\* C21: for the same radio selection and the same server response the
\* refactored capture flow and the original inline handler decide alike on
\* sending, post the same label, and leave the same window.MSL_STATE and
\* result texts.
C21_SameObservableOutcome == BothDone => SameOutcome

\* C21 (amended): the two versions agree on sending, label, window.MSL_STATE
\* and result texts whenever no radio is checked or the checked radio has a
\* non-empty value; with a checked radio of empty value the refactored flow
\* alerts and sends nothing, while the original shows no alert and, given a
\* blob, posts the empty label.
C21_SameOutcomeUnlessEmptyValue ==
    BothDone =>
        IF EmptyValueChecked
        THEN /\ posts[1] = Null /\ alerts = 1 /\ MSL_STATE = Undefined
             /\ original.alerts = 0
             /\ inputs.blob # Null
                => (original.post # Null /\ original.post.v.label = Str(<<>>))
        ELSE SameOutcome /\ alerts = original.alerts

\* Letter A checked and a success response: both versions have posted and
\* show the same result.
C21_Witness ==
    /\ BothDone
    /\ selected = Obj([value |-> Str(<<"A">>)])
    /\ posts[1] # Null /\ original.post # Null
    /\ MSL_STATE # Undefined
    /\ SameOutcome

====
